---------------------------- MODULE Spec2Model ----------------------------
(***************************************************************************)
(* Model of src/src/p2p/piece_tracker.rs: the per-piece download tracker   *)
(* (PieceTracker) with its request window (next_pending_request,           *)
(* next_requests), its completion ledger (request_completed) and its       *)
(* validator (validate_piece).                                             *)
(*                                                                         *)
(* All u32/usize quantities of the model stay far below 2^31; the three    *)
(* unsigned subtractions of the code are written as integer subtractions,  *)
(* so an underflow shows as a negative value instead of being hidden by a  *)
(* wrap.                                                                   *)
(***************************************************************************)
EXTENDS Integers, Sequences, FiniteSets, Bags, TLC

\* ------------------------------------------------------------------------
\* Program constants
\* ------------------------------------------------------------------------
BLOCK_LEN == 16384

MAX_PENDING_REQUESTS == 5

\* ------------------------------------------------------------------------
\* Bounds of the model
\* ------------------------------------------------------------------------
\* Pieces have at most MaxBlocks blocks.
MaxBlocks == 6

\* Pieces of at most MaxCorruptBlocks blocks are also fed payloads that
\* differ from the genuine data (other bytes, one byte short, one byte long);
\* larger pieces are fed genuine payloads only.
MaxCorruptBlocks == 2

\* The digest table of the metadata provider has NumPieces entries; piece
\* ids range over 0..NumPieces, so the id NumPieces has no entry.
NumPieces == 2

VARIABLES
    pid,                \* PieceTracker.pid
    piece_size,         \* PieceTracker.piece_size
    offset,             \* PieceTracker.offset
    pending_requests,   \* PieceTracker.pending_requests (Vec, in order)
    completed_requests, \* PieceTracker.completed_requests (Vec, in order)
    remaining_bytes,    \* PieceTracker.remaining_bytes
    piece_hashes,       \* Metainfo.piece_hashes handed to validate_piece
    consumed,           \* TRUE once validate_piece has taken the tracker
    ret,                \* the last call and what it returned
    wire,               \* driver: bag of requests sent and not yet answered
    drained             \* drain loop: the requests next_pending_request gave

tracker == <<pid, piece_size, offset, pending_requests, completed_requests,
             remaining_bytes>>

vars == <<pid, piece_size, offset, pending_requests, completed_requests,
          remaining_bytes, piece_hashes, consumed, ret, wire, drained>>

\* ------------------------------------------------------------------------
\* Value types
\* ------------------------------------------------------------------------
\* PendingBlockRequest::new(offset, len)
PendingBlockRequest(o, len) == [offset |-> o, size |-> len]

\* A payload buffer is a run of `len` copies of one byte value.
Buf(b, len) == [byte |-> b, len |-> len]

\* CompletedBlockRequest::new(offset, len, data)
CompletedBlockRequest(o, len, data) == [offset |-> o, size |-> len, bytes |-> data]

Pair(r) == [offset |-> r.offset, size |-> r.size]

None == [some |-> FALSE]

Some(v) == [some |-> TRUE, val |-> v]


Min(a, b) == IF a <= b THEN a ELSE b

Ok(v) == [kind |-> "Ok", val |-> v]

\* PeerErr::InvalidBlock and the other error values of Result<_, PeerErr>
Err(e) == [kind |-> "Err", err |-> e]

\* The panic of Option::expect
Panic(msg) == [kind |-> "Panic", msg |-> msg]

\* The tracker as one value (struct PieceTracker)
Self == [pid |-> pid, piece_size |-> piece_size, offset |-> offset,
         pending_requests |-> pending_requests,
         completed_requests |-> completed_requests,
         remaining_bytes |-> remaining_bytes]

\* The tracker's fields after a call that left it as `t`
Becomes(t) ==
    /\ pid' = t.pid
    /\ piece_size' = t.piece_size
    /\ offset' = t.offset
    /\ pending_requests' = t.pending_requests
    /\ completed_requests' = t.completed_requests
    /\ remaining_bytes' = t.remaining_bytes

\* ------------------------------------------------------------------------
\* PieceTracker::new
\* ------------------------------------------------------------------------
new(piece_id, size) ==
    [pid |-> piece_id, piece_size |-> size, offset |-> 0,
     pending_requests |-> <<>>, completed_requests |-> <<>>,
     remaining_bytes |-> size]

\* ------------------------------------------------------------------------
\* PieceTracker::next_pending_request: the tracker after the call and the
\* Option it returns
\* ------------------------------------------------------------------------
\* Faulty variant: the last block is given BLOCK_LEN bytes instead of the
\* remainder.
next_pending_request_FullLast(self) ==
    LET old_offset == self.offset
        remaining == self.piece_size - self.offset
    IN  IF remaining > 0
        THEN [self |-> [self EXCEPT !.offset = @ + Min(remaining, BLOCK_LEN)],
              out |-> Some(PendingBlockRequest(old_offset, BLOCK_LEN))]
        ELSE [self |-> self, out |-> None]

\* Faulty variant: the cursor advances by a whole block also for the last,
\* shorter block.
next_pending_request_Overshoot(self) ==
    LET old_offset == self.offset
        remaining == self.piece_size - self.offset
    IN  IF remaining > 0
        THEN [self |-> [self EXCEPT !.offset = @ + BLOCK_LEN],
              out |-> Some(PendingBlockRequest(old_offset, Min(remaining, BLOCK_LEN)))]
        ELSE [self |-> self, out |-> None]

next_pending_request(self) ==
    LET old_offset == self.offset
        remaining == self.piece_size - self.offset
    IN  IF remaining > BLOCK_LEN
        THEN [self |-> [self EXCEPT !.offset = @ + BLOCK_LEN],
              out |-> Some(PendingBlockRequest(old_offset, BLOCK_LEN))]
        ELSE IF remaining > 0
        THEN [self |-> [self EXCEPT !.offset = @ + remaining],
              out |-> Some(PendingBlockRequest(old_offset, remaining))]
        ELSE [self |-> self, out |-> None]

\* ------------------------------------------------------------------------
\* PieceTracker::next_requests
\* ------------------------------------------------------------------------
\* Rust slices v[from..] and v[..to] (0-based, `to` exclusive)
SliceFrom(v, from) == SubSeq(v, from + 1, Len(v))

SliceTo(v, to) == SubSeq(v, 1, to)

\* Where the loop of next_requests returns when the generator is exhausted
\* after `queued` pushes
ExhaustedSlice(self, current_requests, queued) ==
    SliceTo(self.pending_requests, queued)

\* Where next_requests returns after the loop ran to its end
FilledSlice(self, current_requests) ==
    SliceFrom(self.pending_requests, current_requests)

\* for queued in 0..new_requests { ... }, from iteration `queued` on
RECURSIVE RefillLoop(_, _, _, _)
RefillLoop(self, current_requests, new_requests, queued) ==
    IF queued >= new_requests
    THEN [self |-> self, out |-> FilledSlice(self, current_requests)]
    ELSE LET r == next_pending_request(self)
         IN  IF r.out.some
             THEN RefillLoop([r.self EXCEPT !.pending_requests = Append(@, r.out.val)],
                             current_requests, new_requests, queued + 1)
             ELSE [self |-> r.self,
                   out |-> ExhaustedSlice(r.self, current_requests, queued)]

\* Faulty variant: the loop stops one request before the window is full.
next_requests_OneShort(self) ==
    LET current_requests == Len(self.pending_requests)
        new_requests == MAX_PENDING_REQUESTS - current_requests - 1
    IN  IF new_requests > 0
        THEN RefillLoop(self, current_requests, new_requests, 0)
        ELSE [self |-> self, out |-> <<>>]

\* Faulty variant: the entries already pending are not subtracted from the
\* number of requests to queue.
next_requests_NoSubtract(self) ==
    LET current_requests == Len(self.pending_requests)
        new_requests == MAX_PENDING_REQUESTS
    IN  IF new_requests > 0
        THEN RefillLoop(self, current_requests, new_requests, 0)
        ELSE [self |-> self, out |-> <<>>]

next_requests(self) ==
    LET current_requests == Len(self.pending_requests)
        new_requests == MAX_PENDING_REQUESTS - current_requests
    IN  IF new_requests > 0
        THEN RefillLoop(self, current_requests, new_requests, 0)
        ELSE [self |-> self, out |-> <<>>]

\* ------------------------------------------------------------------------
\* PieceTracker::request_completed
\* ------------------------------------------------------------------------
\* The closure of position(): does the pending entry answer to `req`
\* Faulty variant: a pending entry is matched by its offset alone.
Matches_OffsetOnly(pr, req) == pr.offset = req.offset

Matches(pr, req) == pr.offset = req.offset /\ pr.size = req.size

\* Iterator::position, 1-based; 0 stands for None
Position(pending, req) ==
    LET hits == {i \in 1..Len(pending) : Matches(pending[i], req)}
    IN  IF hits = {} THEN 0 ELSE CHOOSE i \in hits : \A j \in hits : i <= j

\* Faulty variant: Vec::swap_remove, which fills the gap with the last entry.
Remove_Swap(v, index) ==
    IF index = Len(v) THEN SubSeq(v, 1, Len(v) - 1)
    ELSE SubSeq([v EXCEPT ![index] = v[Len(v)]], 1, Len(v) - 1)

\* Vec::remove(index), 1-based
Remove(v, index) == SubSeq(v, 1, index - 1) \o SubSeq(v, index + 1, Len(v))

\* Faulty variant: the piece is reported downloaded when the window is empty.
AllDownloaded_WindowEmpty(self) == self.pending_requests = <<>>

\* The value request_completed returns on success
AllDownloaded(self) == self.remaining_bytes = 0

\* Faulty variant: remaining_bytes is not lowered.
Complete_NoDecrement(self, index, req) ==
    [self EXCEPT !.pending_requests = Remove(@, index),
                 !.completed_requests = Append(@, req)]

\* Faulty variant: remaining_bytes is lowered by a whole block, whatever the
\* size of the request.
Complete_FixedLen(self, index, req) ==
    [self EXCEPT !.pending_requests = Remove(@, index),
                 !.remaining_bytes = @ - BLOCK_LEN,
                 !.completed_requests = Append(@, req)]

\* Faulty variant: the matched entry stays in pending_requests.
Complete_NoRemove(self, index, req) ==
    [self EXCEPT !.remaining_bytes = @ - req.size,
                 !.completed_requests = Append(@, req)]

\* The tracker after a match at `index`
Complete(self, index, req) ==
    [self EXCEPT !.pending_requests = Remove(@, index),
                 !.remaining_bytes = @ - req.size,
                 !.completed_requests = Append(@, req)]

request_completed(self, req) ==
    LET index == Position(self.pending_requests, req)
    IN  IF index = 0
        THEN [self |-> self, out |-> Err("InvalidBlock")]
        ELSE LET t == Complete(self, index, req)
             IN  [self |-> t, out |-> Ok(AllDownloaded(t))]

\* ------------------------------------------------------------------------
\* PieceTracker::validate_piece
\* ------------------------------------------------------------------------
\* Faulty variant: the entry is put last, whatever its offset.
InsertByOffset_Last(sorted, x) == Append(sorted, x)

\* sort_by(|a, b| a.offset.cmp(&b.offset)): a stable sort, as an insertion
\* sort that puts x behind every entry whose offset is not larger
RECURSIVE InsertByOffset(_, _)
InsertByOffset(sorted, x) ==
    IF sorted = <<>> THEN <<x>>
    ELSE IF sorted[Len(sorted)].offset <= x.offset THEN Append(sorted, x)
    ELSE Append(InsertByOffset(SubSeq(sorted, 1, Len(sorted) - 1), x),
                sorted[Len(sorted)])

RECURSIVE SortFrom(_, _, _)
SortFrom(v, i, sorted) ==
    IF i > Len(v) THEN sorted ELSE SortFrom(v, i + 1, InsertByOffset(sorted, v[i]))

SortByOffset(v) == SortFrom(v, 1, <<>>)

\* The hasher holds the bytes fed so far, as the list of their runs: feeding
\* a buffer appends its bytes, and neither an empty buffer nor the place
\* where one buffer ends and the next begins leaves a trace.
Sha1New == <<>>

Sha1Update(h, buf) ==
    IF buf.len <= 0 THEN h
    ELSE IF h # <<>> /\ h[Len(h)].byte = buf.byte
    THEN [h EXCEPT ![Len(h)].len = @ + buf.len]
    ELSE Append(h, buf)

\* The 20-byte digest, taken as free of collisions: two digests are equal
\* exactly when the hashed bytes are.
Sha1Finalize(h) == [sha1 |-> h]

\* for b in &self.completed_requests { hasher.update(&b.bytes) }
RECURSIVE HashFrom(_, _, _)
HashFrom(blocks, i, h) ==
    IF i > Len(blocks) THEN h
    ELSE HashFrom(blocks, i + 1, Sha1Update(h, blocks[i].bytes))

PieceHash(blocks) == Sha1Finalize(HashFrom(blocks, 1, Sha1New))

\* metainfo.piece_hashes.get(pid as usize): ids count from 0
GetHash(hashes, id) ==
    IF id >= 0 /\ id < Len(hashes) THEN Some(hashes[id + 1]) ELSE None

ValidatedPiece(id, blocks) == [pid |-> id, blocks |-> blocks]

\* Faulty variant: the blocks are hashed and handed on as they arrived.
SortedBlocks_AsArrived(self) == self.completed_requests

\* What validate_piece hashes and hands on: the blocks after the sort
SortedBlocks(self) == SortByOffset(self.completed_requests)

\* Faulty variant: a missing entry is reported like a failed validation.
MissingHash_NotValidated(self) == Ok(None)

\* The outcome when the digest table has no entry for the piece
MissingHash(self) ==
    Panic("Internal error: a peer task received an invalid piece ID from the Piece Keeper")

validate_piece(self, hashes) ==
    LET blocks == SortedBlocks(self)
        piece_hash == PieceHash(blocks)
        expected_hash == GetHash(hashes, self.pid)
    IN  IF ~expected_hash.some THEN MissingHash(self)
        ELSE IF expected_hash.val = piece_hash
        THEN Ok(Some(ValidatedPiece(self.pid, blocks)))
        ELSE Ok(None)

\* ------------------------------------------------------------------------
\* The callers' inputs
\* ------------------------------------------------------------------------
\* The blocks of a piece of `size` bytes: block k (from 0) starts at
\* k * BLOCK_LEN and ends with the piece or after BLOCK_LEN bytes
NumBlocks(size) == (size + BLOCK_LEN - 1) \div BLOCK_LEN

Tiling(size) ==
    [k \in 1..NumBlocks(size) |->
        PendingBlockRequest((k - 1) * BLOCK_LEN,
                            Min(BLOCK_LEN, size - (k - 1) * BLOCK_LEN))]

Range(f) == {f[i] : i \in DOMAIN f}

\* Lengths of a piece's last block
Tails == {1, 3616, BLOCK_LEN}

\* The piece sizes of the drain loop: up to MaxBlocks blocks, every tail
DrainSizes ==
    {0} \cup {k * BLOCK_LEN + r : k \in 0..(MaxBlocks - 1), r \in Tails}

\* The piece sizes of the sessions: the empty piece, the pieces of one block,
\* a piece of two blocks with a short tail, and the pieces of 1..MaxBlocks
\* whole blocks
PieceSizes ==
    {0} \cup Tails \cup {BLOCK_LEN + 3616} \cup {k * BLOCK_LEN : k \in 1..MaxBlocks}

PieceIds == 0..NumPieces

\* The data of the torrent: the bytes of block k of piece `id`
GenuineByte(id, k) == IF id % 2 = 0 THEN 0 ELSE k % 2

GenuineBuf(id, p) == Buf(GenuineByte(id, p.offset \div BLOCK_LEN), p.size)

GenuineBlocks(id, size) ==
    [k \in 1..NumBlocks(size) |->
        CompletedBlockRequest(Tiling(size)[k].offset, Tiling(size)[k].size,
                              GenuineBuf(id, Tiling(size)[k]))]

\* Metainfo.piece_hashes of a torrent whose pieces have `size` bytes
HashTable(size) ==
    [i \in 1..NumPieces |-> PieceHash(GenuineBlocks(i - 1, size))]

\* The (offset, size) pairs a peer answers with: every block of the piece,
\* and the first and the last block one byte short
CandidatePairs ==
    Range(Tiling(piece_size))
        \cup {PendingBlockRequest(Tiling(piece_size)[k].offset,
                                   Tiling(piece_size)[k].size - 1) :
                k \in {1, NumBlocks(piece_size)} \cap DOMAIN Tiling(piece_size)}

\* The payloads a peer sends for the pair p
Payloads(p) ==
    {GenuineBuf(pid, p)}
        \cup IF NumBlocks(piece_size) <= MaxCorruptBlocks
             THEN {Buf(b, len) : b \in {0, 1},
                                 len \in {p.size - 1, p.size, p.size + 1} \cap Nat}
             ELSE {}

\* The multiset of the entries of a sequence
RECURSIVE SeqToBag(_)
SeqToBag(v) ==
    IF v = <<>> THEN EmptyBag ELSE SetToBag({v[1]}) (+) SeqToBag(Tail(v))

\* ------------------------------------------------------------------------
\* Initial states: a tracker fresh from PieceTracker::new
\* ------------------------------------------------------------------------
InitWith(sizes) ==
    \E id \in PieceIds, size \in sizes :
        /\ pid = new(id, size).pid
        /\ piece_size = new(id, size).piece_size
        /\ offset = new(id, size).offset
        /\ pending_requests = new(id, size).pending_requests
        /\ completed_requests = new(id, size).completed_requests
        /\ remaining_bytes = new(id, size).remaining_bytes
        /\ piece_hashes = HashTable(size)
        /\ consumed = FALSE
        /\ ret = [op |-> "new"]
        /\ wire = EmptyBag
        /\ drained = <<>>

Init == InitWith(PieceSizes)

\* ------------------------------------------------------------------------
\* The calls of a session on its tracker
\* ------------------------------------------------------------------------
\* tracker.next_requests()
NextRequests ==
    /\ ~consumed
    /\ LET r == next_requests(Self)
       IN  /\ Becomes(r.self)
           /\ ret' = [op |-> "next_requests", out |-> r.out]
    /\ UNCHANGED <<piece_hashes, consumed, wire, drained>>

\* tracker.request_completed(req)
RequestCompleted(req) ==
    /\ ~consumed
    /\ LET r == request_completed(Self, req)
       IN  /\ Becomes(r.self)
           /\ ret' = [op |-> "request_completed", req |-> Pair(req), out |-> r.out]
    /\ UNCHANGED <<piece_hashes, consumed, wire, drained>>

\* tracker.validate_piece(&metainfo): the tracker is moved into the call
ValidatePiece ==
    /\ ~consumed
    /\ consumed' = TRUE
    /\ ret' = [op |-> "validate_piece", out |-> validate_piece(Self, piece_hashes)]
    /\ UNCHANGED <<tracker, piece_hashes, wire, drained>>

Next ==
    \/ NextRequests
    \/ \E p \in CandidatePairs : \E data \in Payloads(p) :
          RequestCompleted(CompletedBlockRequest(p.offset, p.size, data))
    \/ ValidatePiece

Spec == Init /\ [][Next]_vars

\* ------------------------------------------------------------------------
\* Draining the boundary generator: next_pending_request() called on a
\* fresh tracker until it returns None
\* ------------------------------------------------------------------------
NextPendingRequest ==
    /\ ~consumed
    /\ ret.op \in {"new", "next_pending_request"}
    /\ LET r == next_pending_request(Self)
       IN  /\ Becomes(r.self)
           /\ ret' = [op |-> "next_pending_request", out |-> r.out]
           /\ drained' = IF r.out.some THEN Append(drained, r.out.val) ELSE drained
    /\ UNCHANGED <<piece_hashes, consumed, wire>>

NextDrain == NextPendingRequest

InitDrain == InitWith(DrainSizes)

SpecDrain == InitDrain /\ [][NextDrain]_vars

\* ------------------------------------------------------------------------
\* The driving session: it sends exactly the batches next_requests returns
\* and the peer answers every request sent once, with the block asked for
\* ------------------------------------------------------------------------
DriverRefill ==
    /\ ~consumed
    /\ LET r == next_requests(Self)
       IN  /\ Becomes(r.self)
           /\ ret' = [op |-> "next_requests", out |-> r.out]
           /\ wire' = wire (+) SeqToBag(r.out)
    /\ UNCHANGED <<piece_hashes, consumed, drained>>

DriverAnswer ==
    /\ ~consumed
    /\ \E p \in BagToSet(wire) :
          LET req == CompletedBlockRequest(p.offset, p.size, GenuineBuf(pid, p))
              r == request_completed(Self, req)
          IN  /\ Becomes(r.self)
              /\ ret' = [op |-> "request_completed", req |-> Pair(req), out |-> r.out]
              /\ wire' = wire (-) SetToBag({p})
    /\ UNCHANGED <<piece_hashes, consumed, drained>>

NextLive == DriverRefill \/ DriverAnswer

\* The session's loop keeps running: it refills whenever it can and every
\* request on the wire is answered.
SpecLive ==
    Init /\ [][NextLive]_vars /\ WF_vars(DriverRefill) /\ WF_vars(DriverAnswer)

\* ------------------------------------------------------------------------
\* Properties
\* ------------------------------------------------------------------------
PendingPairs == {Pair(pending_requests[i]) : i \in 1..Len(pending_requests)}

CompletedPairs == {Pair(completed_requests[i]) : i \in 1..Len(completed_requests)}

RECURSIVE SumSizes(_)
SumSizes(v) == IF v = <<>> THEN 0 ELSE v[1].size + SumSizes(Tail(v))

IsAscending(v) == \A i \in 1..(Len(v) - 1) : v[i].offset < v[i + 1].offset

\* The blocks of a set, by ascending offset
RECURSIVE AscendingOf(_)
AscendingOf(S) ==
    IF S = {} THEN <<>>
    ELSE LET m == CHOOSE x \in S : \A y \in S : x.offset <= y.offset
         IN  <<m>> \o AscendingOf(S \ {m})

Swap(v, i, j) == [v EXCEPT ![i] = v[j], ![j] = v[i]]

\* C1: next_requests() returns exactly the requests this call appended to
\* pending_requests, in order: the part of the window behind the entries
\* that were pending before the call.
C1_ReturnsWhatItAppended ==
    [][ret'.op = "next_requests"
          => ret'.out = SliceFrom(pending_requests', Len(pending_requests))]_vars

\* C2: pending_requests never holds more than MAX_PENDING_REQUESTS entries.
C2_WindowBounded == Len(pending_requests) <= MAX_PENDING_REQUESTS

C2_Witness ==
    /\ Len(pending_requests) = MAX_PENDING_REQUESTS
    /\ completed_requests # <<>>
    /\ ret.op = "next_requests"

\* C3: the requests drained from a fresh tracker tile [0, piece_size): the
\* first starts at 0, each next one starts where the previous one ends, and
\* once None is returned for a piece of S > 0 bytes the sizes sum to S, every
\* block but the last has BLOCK_LEN bytes and the last has S mod BLOCK_LEN
\* bytes when that is nonzero and BLOCK_LEN otherwise.
DrainDone == ret.op = "next_pending_request" /\ ~ret.out.some

C3_DrainTiles ==
    /\ \A i \in 1..Len(drained) :
          drained[i].offset =
              IF i = 1 THEN 0 ELSE drained[i - 1].offset + drained[i - 1].size
    /\ (DrainDone /\ piece_size > 0) =>
          /\ drained # <<>>
          /\ SumSizes(drained) = piece_size
          /\ \A i \in 1..(Len(drained) - 1) : drained[i].size = BLOCK_LEN
          /\ drained[Len(drained)].size =
                IF piece_size % BLOCK_LEN # 0 THEN piece_size % BLOCK_LEN
                ELSE BLOCK_LEN
    /\ (DrainDone /\ piece_size = 0) => drained = <<>>

C3_Witness ==
    /\ DrainDone
    /\ piece_size = 20000
    /\ drained = <<PendingBlockRequest(0, 16384), PendingBlockRequest(16384, 3616)>>

\* C4: request_completed with an (offset, size) pair that matches no pending
\* entry returns PeerErr::InvalidBlock and changes no field of the tracker.
C4_UnknownBlockRejected ==
    [][(ret'.op = "request_completed" /\ ret'.req \notin PendingPairs)
          => /\ ret'.out.kind = "Err"
             /\ ret'.out.err = "InvalidBlock"
             /\ UNCHANGED tracker]_vars

C4_Witness ==
    /\ ret.op = "request_completed"
    /\ ret.out.kind = "Err"
    /\ pending_requests # <<>>
    /\ completed_requests # <<>>
    /\ ret.req \notin CompletedPairs
    /\ \E p \in PendingPairs : p.offset = ret.req.offset

\* C5: a successful request_completed returns true exactly when it completed
\* the last block: then every block of the tiling is completed, each once,
\* and remaining_bytes is 0; before that it returns false.
C5_TrueOnLastBlockOnly ==
    (ret.op = "request_completed" /\ ret.out.kind = "Ok") =>
        /\ ret.out.val <=>
              /\ CompletedPairs = Range(Tiling(piece_size))
              /\ Len(completed_requests) = NumBlocks(piece_size)
        /\ ret.out.val => remaining_bytes = 0

C5_Witness ==
    /\ ret.op = "request_completed"
    /\ ret.out.kind = "Ok"
    /\ ret.out.val
    /\ Len(completed_requests) > MAX_PENDING_REQUESTS
    /\ ~IsAscending(completed_requests)

\* C6: request_completed with a pair that an earlier call has accepted fails
\* with PeerErr::InvalidBlock.
C6_NoPairAcceptedTwice ==
    [][(ret'.op = "request_completed" /\ ret'.req \in CompletedPairs)
          => /\ ret'.out.kind = "Err"
             /\ ret'.out.err = "InvalidBlock"]_vars

C6_Witness ==
    /\ ret.op = "request_completed"
    /\ ret.out.kind = "Err"
    /\ ret.req \in CompletedPairs
    /\ pending_requests # <<>>

\* C7: with the driver sending exactly the returned batches and every
\* request sent answered once, a piece of piece_size > 0 eventually has
\* remaining_bytes = 0.
C7_EventuallyDownloaded == (piece_size > 0) ~> (remaining_bytes = 0)

\* C8: when the digest table has an entry for the piece, validate_piece
\* returns Ok: Some(ValidatedPiece) with the tracker's pid and all completed
\* blocks by ascending offset when the digest of their concatenation in that
\* order equals the entry, and None when it differs.
HasDigest == pid < Len(piece_hashes)

C8_ValidatedOrNone ==
    (ret.op = "validate_piece" /\ HasDigest) =>
        LET asc == AscendingOf(Range(completed_requests))
        IN  /\ ret.out.kind = "Ok"
            /\ ret.out.val.some <=> (PieceHash(asc) = piece_hashes[pid + 1])
            /\ ret.out.val.some =>
                  /\ ret.out.val.val.pid = pid
                  /\ ret.out.val.val.blocks = asc

C8_Witness ==
    /\ ret.op = "validate_piece"
    /\ HasDigest
    /\ ret.out.kind = "Ok"
    /\ ret.out.val.some
    /\ Len(completed_requests) >= 2
    /\ ~IsAscending(completed_requests)
    /\ pid = 1

\* C9: the outcome of validate_piece does not depend on the order in which
\* the blocks were completed: exchanging any two entries of
\* completed_requests gives the same outcome (and any order of the same
\* blocks is reached by such exchanges).
C9_OrderIndependent ==
    ret.op = "validate_piece" =>
        \A i, j \in 1..Len(completed_requests) :
            validate_piece([Self EXCEPT !.completed_requests = Swap(@, i, j)],
                           piece_hashes) = ret.out

C9_Witness ==
    /\ ret.op = "validate_piece"
    /\ ret.out.kind = "Ok"
    /\ ret.out.val.some
    /\ Len(completed_requests) >= 3
    /\ completed_requests[1].offset > completed_requests[Len(completed_requests)].offset

\* C10: when the digest table has no entry for the piece id, validate_piece
\* panics: it returns neither Ok(Some), nor Ok(None), nor Err.
C10_MissingDigestPanics ==
    (ret.op = "validate_piece" /\ ~HasDigest) => ret.out.kind = "Panic"

C10_Witness ==
    /\ ret.op = "validate_piece"
    /\ pid >= Len(piece_hashes)
    /\ piece_size > 0
    /\ remaining_bytes = 0
    /\ ret.out.kind = "Panic"

\* C11: remaining_bytes equals piece_size minus the sizes of all entries of
\* completed_requests.
C11_RemainingIsUncompleted ==
    remaining_bytes = piece_size - SumSizes(completed_requests)

C11_Witness ==
    /\ piece_size = BLOCK_LEN + 3616
    /\ Len(completed_requests) = 1
    /\ completed_requests[1].size = 3616
    /\ remaining_bytes = BLOCK_LEN

\* C12: among the entries of pending_requests and completed_requests
\* together no two have the same (offset, size) pair, and their byte ranges
\* [offset, offset + size) are pairwise disjoint.
Scheduled == pending_requests \o [i \in 1..Len(completed_requests) |->
                                     Pair(completed_requests[i])]

C12_RangesDisjoint ==
    \A i, j \in 1..Len(Scheduled) :
        i < j =>
            /\ Scheduled[i] # Scheduled[j]
            /\ \/ Scheduled[i].offset + Scheduled[i].size <= Scheduled[j].offset
               \/ Scheduled[j].offset + Scheduled[j].size <= Scheduled[i].offset

C12_Witness ==
    /\ Len(pending_requests) = MAX_PENDING_REQUESTS
    /\ Len(completed_requests) >= 1
    /\ offset = piece_size
    /\ ret.op = "request_completed"
    /\ ret.out.kind = "Err"

\* C13: with the driver sending every returned batch, each request is handed
\* over in exactly one batch: the requests sent and not yet answered are
\* exactly the entries of pending_requests, each once (no pair is returned
\* twice and no pending entry is left out of the batches).
C13_EachRequestHandedOnce == wire = SeqToBag(pending_requests)

C15_OffsetMonotone ==
    [][/\ offset' >= offset
       /\ offset <= piece_size
       /\ offset' <= piece_size'
       /\ offset' # offset => ret'.op = "next_requests"
       /\ ret'.op = "request_completed" => offset' = offset]_vars

C15_Witness ==
    /\ offset = piece_size
    /\ piece_size > MAX_PENDING_REQUESTS * BLOCK_LEN
    /\ ret.op = "request_completed"
    /\ ret.out.kind = "Ok"

\* C16: no unsigned subtraction goes below zero: offset <= piece_size
\* (piece_size - offset), the window holds at most MAX_PENDING_REQUESTS
\* entries (MAX_PENDING_REQUESTS - len), and remaining_bytes stays >= 0
\* (remaining_bytes - req.size); remaining_bytes starts at piece_size, never
\* grows and changes only in an accepted request_completed.
C16_NoUnderflow ==
    /\ remaining_bytes = piece_size
    /\ [](/\ offset <= piece_size
          /\ Len(pending_requests) <= MAX_PENDING_REQUESTS
          /\ remaining_bytes >= 0)
    /\ [][/\ remaining_bytes' <= remaining_bytes
          /\ remaining_bytes' # remaining_bytes =>
                /\ ret'.op = "request_completed"
                /\ ret'.out.kind = "Ok"
                /\ ret'.req.size <= remaining_bytes]_vars

C16_Witness ==
    /\ remaining_bytes = 0
    /\ piece_size = BLOCK_LEN + 3616
    /\ ret.op = "request_completed"
    /\ ret.req.size = 3616

\* C17: an accepted request_completed(req) takes exactly one entry out of
\* pending_requests, the one with req's offset and size, keeps the order of
\* the others, lowers remaining_bytes by req.size, puts req last in
\* completed_requests and leaves offset, piece_size and pid as they are.
C17_CompletionEffect ==
    [][(ret'.op = "request_completed" /\ ret'.out.kind = "Ok") =>
          /\ \E i \in 1..Len(pending_requests) :
                /\ Pair(pending_requests[i]) = ret'.req
                /\ pending_requests' =
                      [k \in 1..(Len(pending_requests) - 1) |->
                          IF k < i THEN pending_requests[k]
                          ELSE pending_requests[k + 1]]
          /\ remaining_bytes' = remaining_bytes - ret'.req.size
          /\ Len(completed_requests') = Len(completed_requests) + 1
          /\ SubSeq(completed_requests', 1, Len(completed_requests)) = completed_requests
          /\ Pair(completed_requests'[Len(completed_requests')]) = ret'.req
          /\ UNCHANGED <<offset, piece_size, pid>>]_vars

C17_Witness ==
    /\ ret.op = "request_completed"
    /\ ret.out.kind = "Ok"
    /\ \E i, j \in 1..Len(pending_requests) :
          /\ i < j
          /\ pending_requests[i].offset < ret.req.offset
          /\ ret.req.offset < pending_requests[j].offset

\* C18: with MAX_PENDING_REQUESTS entries pending, next_requests returns an
\* empty batch and changes nothing; with fewer pending and bytes left to
\* schedule, the window afterwards holds the smaller of
\* MAX_PENDING_REQUESTS and the entries pending before plus the blocks not
\* yet scheduled.
C18_RefillEffect ==
    [][ret'.op = "next_requests" =>
          /\ Len(pending_requests) = MAX_PENDING_REQUESTS =>
                /\ ret'.out = <<>>
                /\ UNCHANGED tracker
          /\ (Len(pending_requests) < MAX_PENDING_REQUESTS /\ offset < piece_size) =>
                Len(pending_requests') =
                    Min(MAX_PENDING_REQUESTS,
                        Len(pending_requests) + NumBlocks(piece_size - offset))]_vars

C18_Witness ==
    /\ ret.op = "next_requests"
    /\ ret.out = <<>>
    /\ Len(pending_requests) = MAX_PENDING_REQUESTS
    /\ offset < piece_size

C20_PayloadHasDeclaredSize ==
    /\ \A i \in 1..Len(completed_requests) :
          completed_requests[i].bytes.len = completed_requests[i].size
    /\ (ret.op = "validate_piece" /\ ret.out.kind = "Ok" /\ ret.out.val.some) =>
          \A i \in 1..Len(ret.out.val.val.blocks) :
              ret.out.val.val.blocks[i].bytes.len = ret.out.val.val.blocks[i].size

=============================================================================
